---- MODULE Spec2Model ----
(***************************************************************************)
(* The ETL pipeline of etl.py: main() runs process_song_data and then      *)
(* process_log_data; each builds DataFrames from the JSON input and writes *)
(* them as parquet tables below output_data.                               *)
(*                                                                         *)
(* A DataFrame is an unordered collection of rows in which a row may occur *)
(* several times: a bag of records (a function from row to its count).     *)
(* Spark evaluates a DataFrame when it is written, so each write action    *)
(* computes its table from the input and stores it.                        *)
(***************************************************************************)
EXTENDS Integers, Sequences, FiniteSets, Bags, TLC

VARIABLES
    song_files,   \* the records under input_data/song_data/A/A/*/*.json
    log_files,    \* the records under input_data/log_data/*/*/*.json
    zone,         \* the Spark session's time zone, as hours east of UTC
    store,        \* the object store below output_data: location -> rows
    pc,           \* the table whose write is next (or failed) in this run
    status,       \* "idle", "running", "done" or "failed"
    run           \* how many times main() was invoked

vars == <<song_files, log_files, zone, store, pc, status, run>>

---------------------------------------------------------------------------
(* Bounds of the model *)

MaxInput == 3        \* input records (song and log records together)
NumPartitions == 2   \* partitions a shuffled DataFrame is spread over
MaxRuns == 2         \* invocations of main(), when it is run repeatedly
MaxRerunInput == 2   \* input records, when main() is run repeatedly

---------------------------------------------------------------------------
(* Input records *)

SongRecords ==
    [song_id : {"S1", "S2"}, title : {"Helix"},
     artist_id : {"A1", "A2"}, artist_name : {"Orbit", "orbit"},
     year : {2018}, duration : {218},
     artist_location : {"NY"}, artist_latitude : {40}, artist_longitude : {74}]

\* ts is a 64-bit count of milliseconds since the epoch, beyond the range of
\* TLC's integers: it is held as two base-10^6 limbs,
\* ts = hi * 10^6 + lo.
TsValues == { [hi |-> 1541121, lo |-> 934796],     \* 2018-11-02 01:25:34.796 UTC
              [hi |-> 1541165, lo |-> 134796] }    \* 2018-11-02 13:25:34.796 UTC

LogRecords(pages, users, levels, songs) ==
    [page : pages, userId : users,
     firstName : {"Ann"}, lastName : {"Lee"}, gender : {"F"},
     level : levels,
     song : songs, artist : {"Orbit"},
     sessionId : {7}, location : {"NY"}, userAgent : {"UA1"},
     ts : TsValues]

ZoneOffsets == {0, -5}

\* All bags of exactly n elements of U, and of at most n.
RECURSIVE BagsOfSize(_, _)
BagsOfSize(U, n) ==
    IF n = 0 THEN {EmptyBag}
    ELSE {b (+) SetToBag({x}) : b \in BagsOfSize(U, n - 1), x \in U}

BagsUpTo(U, n) == UNION {BagsOfSize(U, k) : k \in 0..n}

---------------------------------------------------------------------------
(* DataFrame operations (pyspark.sql.DataFrame) *)

RECURSIVE SumCounts(_, _)
SumCounts(df, rows) ==
    IF rows = {} THEN 0
    ELSE LET r == CHOOSE r \in rows : TRUE
         IN df[r] + SumCounts(df, rows \ {r})

\* Replace every row r by f[r], keeping one result row per input row.
MapRows(df, f) ==
    [y \in {f[r] : r \in DOMAIN df} |->
        SumCounts(df, {r \in DOMAIN df : f[r] = y})]

select(df, cols) == MapRows(df, [r \in DOMAIN df |-> [c \in cols |-> r[c]]])

\* The rows for which the condition (a Boolean column) is true.
filter(df, cond) == [r \in {x \in DOMAIN df : cond[x]} |-> df[r]]

withColumnRenamed(df, old, new) ==
    MapRows(df, [r \in DOMAIN df |->
                   [c \in (DOMAIN r \ {old}) \cup {new} |->
                       IF c = new THEN r[old] ELSE r[c]]])

\* Add (or replace) the column name, col[r] being its value in row r.
withColumn(df, name, col) ==
    MapRows(df, [r \in DOMAIN df |->
                   [c \in DOMAIN r \cup {name} |->
                       IF c = name THEN col[r] ELSE r[c]]])

distinct(df) == [r \in DOMAIN df |-> 1]

\* dropDuplicates keeps one row for every value of the key columns; which of
\* the rows sharing a key survives is not defined: the set of all outcomes.
dropDuplicates(df, keys) ==
    LET keyOf(r) == [c \in keys |-> r[c]]
        ks == {keyOf(r) : r \in DOMAIN df}
        picks == {f \in [ks -> DOMAIN df] : \A k \in ks : keyOf(f[k]) = k}
    IN {[r \in {f[k] : k \in ks} |-> 1] : f \in picks}

\* Inner join: one row for every pair of rows for which the condition on is
\* true, carrying the columns of both.
join(df, other, on) ==
    LET pairs == {p \in (DOMAIN df) \X (DOMAIN other) : on[p]}
        rowOf(p) == p[1] @@ p[2]
        RECURSIVE Sum(_)
        Sum(S) == IF S = {} THEN 0
                  ELSE LET p == CHOOSE p \in S : TRUE
                       IN df[p[1]] * other[p[2]] + Sum(S \ {p})
    IN [y \in {rowOf(p) : p \in pairs} |-> Sum({p \in pairs : rowOf(p) = y})]

---------------------------------------------------------------------------
(* The object store and the DataFrameWriter *)

os_path_join(a, b, c) == <<a, b, c>>

\* Variant: a writer that appends whatever the mode
write_appending(st, path, df, mode) ==
    IF path \notin DOMAIN st
    THEN [p \in DOMAIN st \cup {path} |-> IF p = path THEN df ELSE st[p]]
    ELSE [p \in DOMAIN st |-> IF p = path THEN st[p] (+) df ELSE st[p]]

\* df.write.mode(mode).parquet(path)
write(st, path, df, mode) ==
    IF mode = "overwrite" \/ path \notin DOMAIN st
    THEN [p \in DOMAIN st \cup {path} |-> IF p = path THEN df ELSE st[p]]
    ELSE [p \in DOMAIN st |-> IF p = path THEN st[p] (+) df ELSE st[p]]

input_data == "s3a://udacity-dend/"
output_data == "s3a://dend-cda/output/"

---------------------------------------------------------------------------
(* process_song_data *)

song_df == song_files

\* Variant: the songs projection without dropDuplicates
songs_table_all_rows ==
    {select(song_df, {"song_id", "title", "artist_id", "year", "duration"})}

\* Variant: the songs projection with one row kept per title
songs_table_by_title ==
    dropDuplicates(
        select(song_df, {"song_id", "title", "artist_id", "year", "duration"}),
        {"title"})

songs_table ==
    dropDuplicates(
        select(song_df, {"song_id", "title", "artist_id", "year", "duration"}),
        {"song_id"})

songs_path == os_path_join(output_data, "songs_table", "songs_table.parquet")

artists_table ==
    LET sel == select(song_df, {"artist_id", "artist_name", "artist_location",
                                "artist_latitude", "artist_longitude"})
        rename(t) ==
            withColumnRenamed(
              withColumnRenamed(
                withColumnRenamed(
                  withColumnRenamed(t, "artist_name", "name"),
                  "artist_location", "location"),
                "artist_latitude", "latitude"),
              "artist_longitude", "longitude")
    IN {rename(t) : t \in dropDuplicates(sel, {"artist_id"})}

artists_path == os_path_join(output_data, "artists_table", "artists_table.parquet")

---------------------------------------------------------------------------
(* Dates and timestamps (pyspark.sql.functions).  A timestamp is an instant,
   [sec, ms] since the epoch; a date is a day number since 1970-01-01.  A
   function applied to a column of the other type casts it first, in the
   session time zone. *)

\* to_timestamp(df.ts / 1000): milliseconds to seconds, the fraction kept.
to_timestamp(ts) ==
    [sec |-> ts.hi * 1000 + ts.lo \div 1000, ms |-> ts.lo % 1000]

AsDate(c) ==
    IF "days" \in DOMAIN c THEN c
    ELSE [days |-> (c.sec + zone * 3600) \div 86400]

\* A date cast to a timestamp is the midnight that starts it.
AsTimestamp(c) ==
    IF "days" \in DOMAIN c THEN [sec |-> c.days * 86400 - zone * 3600, ms |-> 0]
    ELSE c

to_date(c) == AsDate(c)

\* Year, month and day of a day number, in the proleptic Gregorian calendar.
Civil(days) ==
    LET z == days + 719468
        era == z \div 146097
        doe == z - era * 146097
        yoe == (doe - doe \div 1460 + doe \div 36524 - doe \div 146096) \div 365
        doy == doe - (365 * yoe + yoe \div 4 - yoe \div 100)
        mp == (5 * doy + 2) \div 153
        d == doy - (153 * mp + 2) \div 5 + 1
        m == IF mp < 10 THEN mp + 3 ELSE mp - 9
    IN [y |-> yoe + era * 400 + (IF m <= 2 THEN 1 ELSE 0), m |-> m, d |-> d]

\* Day number of January 1st of year y.
Jan1(y) ==
    LET leaps(n) == (n - 1) \div 4 - (n - 1) \div 100 + (n - 1) \div 400
    IN 365 * (y - 1970) + leaps(y) - leaps(1970)

hour(c) == ((AsTimestamp(c).sec + zone * 3600) % 86400) \div 3600
dayofmonth(c) == Civil(AsDate(c).days).d
month(c) == Civil(AsDate(c).days).m
year(c) == Civil(AsDate(c).days).y

\* 1 = Sunday .. 7 = Saturday (1970-01-01 was a Thursday).
dayofweek(c) == ((AsDate(c).days + 4) % 7) + 1

\* ISO 8601 week: the week of the year that holds this week's Thursday.
weekofyear(c) ==
    LET days == AsDate(c).days
        monday == days - ((days + 3) % 7)
        thursday == monday + 3
    IN (thursday - Jan1(Civil(thursday).y)) \div 7 + 1

---------------------------------------------------------------------------
(* process_log_data *)

\* Variant: the log read without the page filter
log_df_unfiltered == log_files

\* df = spark.read.json(log_data); df = df.filter(df.page == 'NextSong')
log_df == filter(log_files, [r \in DOMAIN log_files |-> r.page = "NextSong"])

users_table ==
    LET sel == select(log_df, {"userId", "firstName", "lastName", "gender", "level"})
        rename(t) ==
            withColumnRenamed(
              withColumnRenamed(
                withColumnRenamed(t, "userId", "user_id"),
                "firstName", "first_name"),
              "lastName", "last_name")
    IN {rename(t) : t \in dropDuplicates(sel, {"userId"})}

users_path == os_path_join(output_data, "users_table", "users_table.parquet")

\* df with ts replaced by the timestamp and the date column dt added
log_df_dt ==
    LET df == withColumn(log_df, "ts", [r \in DOMAIN log_df |-> to_timestamp(r.ts)])
    IN withColumn(df, "dt", [r \in DOMAIN df |-> to_date(r.ts)])

time_columns(df) ==
    LET t0 == withColumnRenamed(select(df, {"ts", "dt"}), "ts", "start_time")
        t1 == withColumn(t0, "hour", [r \in DOMAIN t0 |-> hour(r.dt)])
        t2 == withColumn(t1, "day", [r \in DOMAIN t1 |-> dayofmonth(r.dt)])
        t3 == withColumn(t2, "week", [r \in DOMAIN t2 |-> weekofyear(r.dt)])
        t4 == withColumn(t3, "month", [r \in DOMAIN t3 |-> month(r.dt)])
        t5 == withColumn(t4, "year", [r \in DOMAIN t4 |-> year(r.dt)])
    IN withColumn(t5, "weekday", [r \in DOMAIN t5 |-> dayofweek(r.dt)])

\* Variant: the time table collapsed to one row per start_time
time_table_distinct == distinct(time_columns(log_df_dt))

time_table == time_columns(log_df_dt)

time_path == os_path_join(output_data, "time_table", "time.parquet")

\* The lower-case form of the names of the input.
Lower(str) ==
    CASE str = "Helix" -> "helix"
      [] str = "Orbit" -> "orbit"
      [] OTHER -> str

\* Variant: a join that ignores case
join_on_ignoring_case(l, r) ==
    Lower(l.song) = Lower(r.title) /\ Lower(l.artist) = Lower(r.artist_name)

\* The join condition (df.song == song_df.title) & (df.artist == song_df.artist_name)
join_on(l, r) == l.song = r.title /\ l.artist = r.artist_name

joined_df ==
    join(log_df_dt, song_df,
         [p \in (DOMAIN log_df_dt) \X (DOMAIN song_df) |-> join_on(p[1], p[2])])

\* Variant: ids that number the rows of each partition from 0
record_number_only(partition, record) == [partition |-> 0, record |-> record]

\* monotonically_increasing_id(): the partition index in the upper 31 bits
\* and the number of the row within its partition in the lower 33 bits
\* (2^33 is beyond TLC's integers, so the two parts are kept apart).
monotonically_increasing_id(partition, record) ==
    [partition |-> partition, record |-> record]

\* Every way the rows can be spread over the partitions and ordered within
\* them: a function from row to (partition, number of the row in it).
RECURSIVE Placements(_)
Placements(rows) ==
    IF rows = {} THEN {<<>>}
    ELSE LET x == CHOOSE x \in rows : TRUE
             count(a, p) == Cardinality({r \in DOMAIN a : a[r][1] = p})
             insert(a, p, i) ==
                 [r \in DOMAIN a \cup {x} |->
                    IF r = x THEN <<p, i>>
                    ELSE IF a[r][1] = p /\ a[r][2] >= i
                         THEN <<p, a[r][2] + 1>> ELSE a[r]]
         IN UNION { {insert(a, p, i) : i \in 0..count(a, p)} :
                      a \in Placements(rows \ {x}), p \in 0..(NumPartitions - 1) }

\* joined_df.distinct().withColumn('songplay_id', ...).selectExpr(...)
selectExpr(r) ==
    [songplay_id |-> r.songplay_id,
     start_time |-> r.ts,
     month |-> month(r.ts),
     year |-> year(r.ts),
     user_id |-> r.userId,
     level |-> r.level,
     song_id |-> r.song_id,
     artist_id |-> r.artist_id,
     session_id |-> r.sessionId,
     location |-> r.location,
     user_agent |-> r.userAgent]

songplay_table ==
    LET d == distinct(joined_df)
        with_id(pl) ==
            withColumn(d, "songplay_id",
                [r \in DOMAIN d |-> monotonically_increasing_id(pl[r][1], pl[r][2])])
    IN { MapRows(with_id(pl), [r \in DOMAIN with_id(pl) |-> selectExpr(r)])
         : pl \in Placements(DOMAIN d) }

songplays_path == os_path_join(output_data, "songplays_table", "songsplay.parquet")

---------------------------------------------------------------------------
(* The run *)

Order == <<"songs", "artists", "users", "time", "songplays">>

\* The input holds at most total records, main() has not been invoked and
\* the output location is empty.
Start(songs, events, total) ==
    /\ song_files \in BagsUpTo(songs, total)
    /\ log_files \in BagsUpTo(events, total - BagCardinality(song_files))
    /\ zone \in ZoneOffsets
    /\ store = <<>>
    /\ pc = "songs"
    /\ status = "idle"
    /\ run = 0

\* One run: the log holds plays and other pages, song names that match the
\* catalog and that differ from it in case only.
Init ==
    Start(SongRecords,
          LogRecords({"NextSong", "Home"}, {"42", "7"}, {"free"}, {"Helix", "helix"}),
          MaxInput)

\* Runs repeated over the same input: plays only, of users whose level differs
\* between their events.
InitRerun ==
    Start(SongRecords,
          LogRecords({"NextSong"}, {"42", "7"}, {"free", "paid"}, {"Helix"}),
          MaxRerunInput)

WriteSongsTable ==
    /\ status = "running" /\ pc = "songs"
    /\ \E t \in songs_table : store' = write(store, songs_path, t, "overwrite")
    /\ pc' = "artists"
    /\ UNCHANGED <<song_files, log_files, zone, status, run>>

WriteArtistsTable ==
    /\ status = "running" /\ pc = "artists"
    /\ \E t \in artists_table : store' = write(store, artists_path, t, "overwrite")
    /\ pc' = "users"
    /\ UNCHANGED <<song_files, log_files, zone, status, run>>

WriteUsersTable ==
    /\ status = "running" /\ pc = "users"
    /\ \E t \in users_table : store' = write(store, users_path, t, "overwrite")
    /\ pc' = "time"
    /\ UNCHANGED <<song_files, log_files, zone, status, run>>

WriteTimeTable ==
    /\ status = "running" /\ pc = "time"
    /\ store' = write(store, time_path, time_table, "overwrite")
    /\ pc' = "songplays"
    /\ UNCHANGED <<song_files, log_files, zone, status, run>>

\* The last write: main() returns.
WriteSongplayTable ==
    /\ status = "running" /\ pc = "songplays"
    /\ \E t \in songplay_table : store' = write(store, songplays_path, t, "overwrite")
    /\ status' = "done"
    /\ UNCHANGED <<song_files, log_files, zone, pc, run>>

path_of(t) ==
    CASE t = "songs" -> songs_path
      [] t = "artists" -> artists_path
      [] t = "users" -> users_path
      [] t = "time" -> time_path
      [] t = "songplays" -> songplays_path

\* Variant: a failed write that rolls the earlier tables back
WriteFailsRollingBack ==
    /\ status = "running"
    /\ status' = "failed"
    /\ store' = <<>>
    /\ UNCHANGED <<song_files, log_files, zone, pc, run>>

\* A write raises: nothing catches the exception, so it leaves the function
\* and main().  An overwrite that fails has either not yet touched the
\* destination or has already deleted it.
WriteFails ==
    /\ status = "running"
    /\ status' = "failed"
    /\ \/ store' = store
       \/ store' = [p \in DOMAIN store \ {path_of(pc)} |-> store[p]]
    /\ UNCHANGED <<song_files, log_files, zone, pc, run>>

\* The entry point is invoked: process_song_data comes first.
main ==
    /\ status = "idle"
    /\ run' = run + 1
    /\ status' = "running"
    /\ pc' = "songs"
    /\ UNCHANGED <<song_files, log_files, zone, store>>

Next ==
    \/ main
    \/ WriteSongsTable
    \/ WriteArtistsTable
    \/ WriteUsersTable
    \/ WriteTimeTable
    \/ WriteSongplayTable
    \/ WriteFails

Spec == Init /\ [][Next]_vars

\* main() is invoked again after a completed run, on the same input and the
\* same output location.
main_again ==
    /\ status = "done"
    /\ run < MaxRuns
    /\ run' = run + 1
    /\ status' = "running"
    /\ pc' = "songs"
    /\ UNCHANGED <<song_files, log_files, zone, store>>

NextRerun == Next \/ main_again

SpecRerun == InitRerun /\ [][NextRerun]_vars

---------------------------------------------------------------------------
(* Properties *)

Pos(t) == CHOOSE i \in 1..Len(Order) : Order[i] = t

\* The current run has written table t.
Written(t) ==
    /\ status \in {"running", "failed", "done"}
    /\ status = "done" \/ Pos(t) < Pos(pc)

Table(t) == store[path_of(t)]
Rows(t) == DOMAIN Table(t)

\* How many rows of df satisfy P, a row that occurs n times counting n times.
Count(df, P(_)) == SumCounts(df, {r \in DOMAIN df : P(r)})

PlayEvents == {e \in DOMAIN log_files : e.page = "NextSong"}
Matching(e) ==
    {s \in DOMAIN song_files : s.title = e.song /\ s.artist_name = e.artist}

\* C1: an event whose page is not "NextSong" contributes to no output of
\* process_log_data: every user_id of the users table is the userId of a
\* NextSong event (a user with other events only is absent), the time table
\* holds at any start_time no more rows than there are NextSong events of
\* that ts, and every songplays row carries the fields of a NextSong event.
C1_OnlyNextSongEvents ==
    /\ Written("users") =>
          \A r \in Rows("users") : \E e \in PlayEvents : r.user_id = e.userId
    /\ Written("time") =>
          \A r \in Rows("time") :
              Count(Table("time"), LAMBDA x : x.start_time = r.start_time)
                <= Count(log_files, LAMBDA e : e.page = "NextSong"
                                        /\ to_timestamp(e.ts) = r.start_time)
    /\ Written("songplays") =>
          \A r \in Rows("songplays") : \E e \in PlayEvents :
              /\ r.user_id = e.userId /\ r.start_time = to_timestamp(e.ts)
              /\ r.level = e.level /\ r.session_id = e.sessionId

\* A run completed on a log that holds a play and an event of another page
\* of a user who played nothing; that user is not in the users table.
C1_Witness ==
    /\ status = "done"
    /\ Rows("songplays") # {} /\ Rows("users") # {}
    /\ \E h \in DOMAIN log_files :
          /\ h.page # "NextSong"
          /\ \A e \in PlayEvents : e.userId # h.userId
          /\ \A r \in Rows("users") : r.user_id # h.userId

\* C2: the songs table holds exactly one row for every song_id of the input
\* song records, and no song_id that the input does not hold.
C2_OneRowPerSongId ==
    Written("songs") =>
        /\ \A s \in DOMAIN song_files :
              Count(Table("songs"), LAMBDA r : r.song_id = s.song_id) = 1
        /\ \A r \in Rows("songs") : \E s \in DOMAIN song_files : s.song_id = r.song_id

\* The songs table is written from an input of two different records that
\* share a song_id, and holds one row.
C2_Witness ==
    /\ Written("songs")
    /\ \E a, b \in DOMAIN song_files : a # b /\ a.song_id = b.song_id
    /\ Count(Table("songs"), LAMBDA r : TRUE) = 1

\* C3: songplays rows come from exact, case-sensitive matches only.  Every
\* row carries the user_id and session_id of a NextSong event and the song_id
\* and artist_id of a catalog record whose title and artist_name equal the
\* event's song and artist; and for every such pair the table holds as many
\* rows with these values and the event's start_time as there are matching
\* pairs of an event and a catalog record that yield them: one row for an
\* event with exactly one
\* matching record, none for an event without (a difference in case is no
\* match).
Key4(e, s) ==
    [user_id |-> e.userId, session_id |-> e.sessionId,
     song_id |-> s.song_id, artist_id |-> s.artist_id, ts |-> to_timestamp(e.ts)]
RowKey4(r) ==
    [user_id |-> r.user_id, session_id |-> r.session_id,
     song_id |-> r.song_id, artist_id |-> r.artist_id, ts |-> r.start_time]
MatchingPairs == {p \in PlayEvents \X DOMAIN song_files : p[2] \in Matching(p[1])}

C3_ExactMatchJoin ==
    Written("songplays") =>
        /\ \A r \in Rows("songplays") :
              \E p \in MatchingPairs : RowKey4(r) = Key4(p[1], p[2])
        /\ \A p \in MatchingPairs :
              Count(Table("songplays"), LAMBDA r : RowKey4(r) = Key4(p[1], p[2]))
                = Cardinality({q \in MatchingPairs : Key4(q[1], q[2]) = Key4(p[1], p[2])})
        /\ (\A e \in PlayEvents : Matching(e) = {}) => Rows("songplays") = {}

\* A completed run in which one play matches exactly one catalog record and
\* yields the only songplays row, while another play differs from a catalog
\* record in case only and yields none.
C3_Witness ==
    /\ status = "done"
    /\ Count(Table("songplays"), LAMBDA r : TRUE) = 1
    /\ \E e \in PlayEvents : Cardinality(Matching(e)) = 1
    /\ \E e \in PlayEvents :
          /\ Matching(e) = {}
          /\ \E s \in DOMAIN song_files :
                Lower(s.title) = Lower(e.song) /\ Lower(s.artist_name) = Lower(e.artist)

\* C4: the time table holds exactly one row per NextSong event: as many rows
\* as there are NextSong events, events of the same ts included.
C4_OneTimeRowPerEvent ==
    Written("time") =>
        Count(Table("time"), LAMBDA r : TRUE)
          = Count(log_files, LAMBDA e : e.page = "NextSong")

\* The time table is written from a log with two NextSong events of the same
\* ts, and holds two rows of that start_time.
C4_Witness ==
    /\ Written("time")
    /\ Count(log_files, LAMBDA e : e.page = "NextSong") = 2
    /\ \E t \in TsValues :
          /\ \A e \in PlayEvents : e.ts = t
          /\ Count(Table("time"), LAMBDA r : r.start_time = to_timestamp(t)) = 2

\* C5: in every time row, hour is the hour of day (0..23) of the instant
\* start_time in the session time zone, and day, week, month, year and
\* weekday are the calendar values of that same instant.
C5_CalendarFields ==
    Written("time") =>
        \A r \in Rows("time") :
            /\ r.hour = hour(r.start_time)
            /\ r.day = dayofmonth(r.start_time)
            /\ r.week = weekofyear(r.start_time)
            /\ r.month = month(r.start_time)
            /\ r.year = year(r.start_time)
            /\ r.weekday = dayofweek(r.start_time)

\* C6: no two rows of a songplays output have the same songplay_id, however
\* the rows are spread over the partitions and ordered within them.
C6_UniqueSongplayId ==
    Written("songplays") =>
        \A r \in Rows("songplays") :
            Count(Table("songplays"), LAMBDA x : x.songplay_id = r.songplay_id) = 1

\* A completed run whose songplays rows lie in different partitions and have
\* the same number within their partitions.
C6_Witness ==
    /\ status = "done"
    /\ \E a, b \in Rows("songplays") :
          /\ a.songplay_id.partition # b.songplay_id.partition
          /\ a.songplay_id.record = b.songplay_id.record

\* C7: every table lies at output_root/NAME/NAME.parquet: the nested
\* directory is named as its parent directory, with .parquet appended.
C7_PathConvention ==
    \A p \in DOMAIN store : p[1] = output_data /\ p[3] = p[2] \o ".parquet"

\* C8: the tables are written in the order songs, artists, users, time,
\* songplays; when a write fails the tables written earlier in the run stay
\* as they are, and nothing is written afterwards: no later table, and no
\* second attempt.
C8_Step ==
    /\ (status = "running" /\ status' # "failed") =>
          /\ \A p \in DOMAIN store : p # path_of(pc) => p \in DOMAIN store' /\ store'[p] = store[p]
          /\ path_of(pc) \in DOMAIN store'
          /\ IF Pos(pc) < Len(Order)
             THEN status' = "running" /\ pc' = Order[Pos(pc) + 1]
             ELSE status' = "done"
    /\ (status = "running" /\ status' = "failed") =>
          /\ pc' = pc
          /\ \A t \in {Order[i] : i \in 1..Len(Order)} :
                Pos(t) < Pos(pc) =>
                    /\ path_of(t) \in DOMAIN store /\ path_of(t) \in DOMAIN store'
                    /\ store'[path_of(t)] = store[path_of(t)]
    /\ status = "failed" => UNCHANGED vars
    /\ status = "idle" => pc' = Order[1] /\ store' = store

C8_OrderAndFailure == [][C8_Step]_vars

\* The write of the time table has failed, and songs, artists and users are
\* in place.
C8_Witness ==
    /\ status = "failed" /\ pc = "time"
    /\ Rows("songs") # {} /\ Rows("artists") # {} /\ Rows("users") # {}

\* songplays rows without their songplay_id
WithoutId(df) ==
    MapRows(df, [r \in DOMAIN df |-> [c \in DOMAIN r \ {"songplay_id"} |-> r[c]]])

UniqueIds(df) ==
    \A r \in DOMAIN df : Count(df, LAMBDA x : x.songplay_id = r.songplay_id) = 1

KeyColumn(t) ==
    CASE t = "songs" -> "song_id" [] t = "artists" -> "artist_id" [] t = "users" -> "user_id"

\* C9 as stated: a second run of main() on the same input leaves every table
\* with the rows the first run gave it (songplays compared without the
\* songplay_id, the ids unique and as many), also when records of the input
\* share a song_id, artist_id or userId and differ elsewhere.  At the write
\* of a table in a later run, the store still holds the table of the run
\* before.
C9_RerunSameRows ==
    [][ (run > 1 /\ status = "running" /\ status' # "failed") =>
          LET old == store[path_of(pc)]
              new == store'[path_of(pc)]
          IN IF pc = "songplays"
             THEN /\ WithoutId(new) = WithoutId(old)
                  /\ UniqueIds(new)
                  /\ Count(new, LAMBDA r : TRUE) = Count(old, LAMBDA r : TRUE)
             ELSE new = old ]_vars

\* No two records of the input share the key of table t and differ in the
\* columns the table takes from them.
SongColumns == {"song_id", "title", "artist_id", "year", "duration"}
ArtistColumns == {"artist_id", "artist_name", "artist_location",
                  "artist_latitude", "artist_longitude"}
UserColumns == {"userId", "firstName", "lastName", "gender", "level"}
Agree(a, b, cols) == \A c \in cols : a[c] = b[c]
NoConflict(t) ==
    CASE t = "songs" ->
           \A a, b \in DOMAIN song_files :
               a.song_id = b.song_id => Agree(a, b, SongColumns)
      [] t = "artists" ->
           \A a, b \in DOMAIN song_files :
               a.artist_id = b.artist_id => Agree(a, b, ArtistColumns)
      [] t = "users" ->
           \A a, b \in PlayEvents :
               a.userId = b.userId => Agree(a, b, UserColumns)

\* C9 amended: a second run leaves time with the same rows and songplays with
\* the same rows apart from the songplay_id (ids unique, as many rows); it
\* leaves songs, artists and users with the same keys, one row a key, and
\* with the same rows when no two input records share the key and differ in
\* the table's columns.
C9_RerunSameUpToSurvivor ==
    [][ (run > 1 /\ status = "running" /\ status' # "failed") =>
          LET old == store[path_of(pc)]
              new == store'[path_of(pc)]
          IN CASE pc = "songplays" ->
                  /\ WithoutId(new) = WithoutId(old)
                  /\ UniqueIds(new)
                  /\ Count(new, LAMBDA r : TRUE) = Count(old, LAMBDA r : TRUE)
               [] pc = "time" -> new = old
               [] OTHER ->
                  /\ {r[KeyColumn(pc)] : r \in DOMAIN new} = {r[KeyColumn(pc)] : r \in DOMAIN old}
                  /\ \A r \in DOMAIN new :
                        Count(new, LAMBDA x : x[KeyColumn(pc)] = r[KeyColumn(pc)]) = 1
                  /\ Count(new, LAMBDA r : TRUE) = Count(old, LAMBDA r : TRUE)
                  /\ NoConflict(pc) => new = old ]_vars

\* A second run completed on an input in which two records share a song_id
\* and differ; the songs table holds the one row of that song_id.
C9_Witness ==
    /\ run = 2 /\ status = "done"
    /\ ~NoConflict("songs")
    /\ Count(Table("songs"), LAMBDA r : TRUE) = 1

\* C10: after a completed run every songplays row resolves by key: its song_id
\* is in the songs table, its artist_id in the artists table and its user_id
\* in the users table of that run.
C10_KeysResolve ==
    status = "done" =>
        \A r \in Rows("songplays") :
            /\ \E x \in Rows("songs") : x.song_id = r.song_id
            /\ \E x \in Rows("artists") : x.artist_id = r.artist_id
            /\ \E x \in Rows("users") : x.user_id = r.user_id

\* A completed run with a songplays row, on a catalog in which two records
\* share a title and not their song_id, and two share an artist_id and differ.
C10_Witness ==
    /\ status = "done"
    /\ Rows("songplays") # {}
    /\ \E a, b \in DOMAIN song_files : a.song_id # b.song_id /\ a.title = b.title
    /\ ~NoConflict("artists")
====
